---- MODULE Spec2Model ----
(***************************************************************************)
(* Model of the Samsung MDC client: the frame codec (proto.rs) and the     *)
(* session / command layer (client.rs).                                    *)
(*                                                                         *)
(* Two specifications share the module:                                    *)
(*   SpecCodec  applies Packet::into_bytes and Packet::from_bytes to       *)
(*              packets and byte buffers drawn from bounded sets;          *)
(*   Spec       runs one MDCSession over a duplex stream whose peer sends  *)
(*              frames and garbage, and whose reads chunk arbitrarily;     *)
(*   SpecQuery  runs the two status queries against arbitrary replies;     *)
(*   SpecStream runs recv_packet against a peer that sends valid frames;   *)
(*   SpecDisplay runs the command builders against a display that answers  *)
(*              every frame it receives.                                   *)
(* Bytes are naturals in 0..255; every `as u8` is a reduction mod 256.     *)
(***************************************************************************)
EXTENDS Integers, Sequences, FiniteSets, TLC

VARIABLES
    buffer,     \* MDCSession.buffer, the accumulation buffer
    inbound,    \* bytes sent by the peer that no read has returned yet
    outbound,   \* bytes the current call has written to the stream
    pc,         \* position of the caller inside the session call
    op,         \* the session operation in progress (or last finished)
    result,     \* value returned by the last finished call
    io,         \* outcome of the last stream read/write of the current call
    pkt,        \* codec: the Packet under test
    input,      \* codec: the Vec<u8> handed to Packet::from_bytes
    before,     \* codec: the contents of input before from_bytes ran
    out,        \* codec: what from_bytes returned
    cstage,     \* codec: which codec call has been applied
    sent,       \* stream: the frames the peer has put on the wire, in order
    got,        \* stream: the frames recv_packet has returned, in order
    nreads,     \* stream: the reads the current recv_packet call has made
    power,      \* display: its power state
    panel,      \* display: its panel state
    requests,   \* display: frames received and not yet answered
    replies,    \* display: for each reply not yet decoded by the session,
                \*          whether it answers the request of the current call
    paired,     \* display: whether the reply last decoded by the session
                \*          answered the request of the call that decoded it
    lastPower   \* display: the power-state the caller last set successfully

vars == <<buffer, inbound, outbound, pc, op, result, io,
          pkt, input, before, out, cstage,
          sent, got, nreads,
          power, panel, requests, replies, paired, lastPower>>
streamVars == <<sent, got, nreads>>
displayVars == <<power, panel, requests, replies, paired, lastPower>>
sessionVars == <<buffer, inbound, outbound, pc, op, result, io>>
codecVars == <<pkt, input, before, out, cstage>>

----------------------------------------------------------------------------
(* Program constants                                                       *)

HEADER == 170
DISPLAY_BROADCAST == 254
ACK_NACK == 255
POWER_CONTROL == 17
PANEL_ON_OFF == 249
INIT_BUFFER_SIZE == 1024
ASCII_A == 65

----------------------------------------------------------------------------
(* Bounds of the model                                                     *)

MaxLen == 2         \* longest payload of a packet under test
MaxBuf == 7         \* longest raw buffer handed to from_bytes
MaxPending == 8     \* most bytes in flight (inbound + accumulated)
MaxFrames == 3      \* most frames the peer of SpecStream sends
MaxUnread == 2      \* most requests and replies in flight in SpecDisplay

----------------------------------------------------------------------------
(* Generic helpers                                                         *)

RECURSIVE SumSeq(_)
SumSeq(s) == IF Len(s) = 0 THEN 0 ELSE s[1] + SumSeq(Tail(s))

Min(a, b) == IF a < b THEN a ELSE b

SeqsUpTo(S, n) == UNION { [1..k -> S] : k \in 0..n }

Some(x) == <<x>>
None == <<>>

----------------------------------------------------------------------------
(* proto.rs : Packet                                                       *)

Packet_new(command, display_id, data) ==
    [command |-> command, display_id |-> display_id, data |-> data]

checksum_no_len(p) ==
    (p.command + p.display_id + SumSeq(p.data)) % 256

checksum(p) ==
    (p.command + p.display_id + Len(p.data) + SumSeq(p.data)) % 256

into_bytes(p) ==
    <<HEADER, p.command, p.display_id, Len(p.data) % 256>>
        \o p.data \o <<checksum(p)>>

ParseErr(kind, buf) ==
    [ok |-> FALSE, packet |-> None, bytes_red |-> 0, err |-> kind,
     input |-> buf]

ParseOk(p, n, rest) ==
    [ok |-> TRUE, packet |-> Some(p), bytes_red |-> n, err |-> "",
     input |-> rest]

\* Vec::drain(..n): the buffer that is left once the first n bytes are removed
drain_keeps_last(buf, n) == SubSeq(buf, n, Len(buf))

drain(buf, n) == SubSeq(buf, n + 1, Len(buf))

\* the checksum from_bytes recomputes over the received bytes
received_checksum_no_wrap(buf, data_length) ==
    buf[2] + buf[3] + data_length + SumSeq(SubSeq(buf, 5, 4 + data_length))

received_checksum(buf, data_length) ==
    (buf[2] + buf[3] + data_length
        + SumSeq(SubSeq(buf, 5, 4 + data_length))) % 256

Packet_from_bytes_drop_on_error(buf) ==
    IF Len(buf) = 0 THEN ParseErr("IncompleteInput", buf)
    ELSE IF buf[1] # HEADER THEN ParseErr("InvalidHeader", Tail(buf))
    ELSE IF Len(buf) < 4 THEN ParseErr("IncompleteInput", buf)
    ELSE LET data_length == buf[4] IN
         IF Len(buf) < 4 + data_length + 1
         THEN ParseErr("IncompleteInput", buf)
         ELSE IF received_checksum(buf, data_length) # buf[4 + data_length + 1]
         THEN ParseErr("InvalidChecksum", drain(buf, 4 + data_length + 1))
         ELSE ParseOk(Packet_new(buf[2], buf[3],
                                 SubSeq(buf, 5, 4 + data_length)),
                      4 + data_length + 1,
                      drain(buf, 4 + data_length + 1))

Packet_from_bytes_short_is_checksum(buf) ==
    IF Len(buf) = 0 THEN ParseErr("IncompleteInput", buf)
    ELSE IF buf[1] # HEADER THEN ParseErr("InvalidHeader", buf)
    ELSE IF Len(buf) < 4 THEN ParseErr("IncompleteInput", buf)
    ELSE LET data_length == buf[4] IN
         IF Len(buf) < 4 + data_length + 1
         THEN ParseErr("InvalidChecksum", buf)
         ELSE IF received_checksum(buf, data_length) # buf[4 + data_length + 1]
         THEN ParseErr("InvalidChecksum", buf)
         ELSE ParseOk(Packet_new(buf[2], buf[3],
                                 SubSeq(buf, 5, 4 + data_length)),
                      4 + data_length + 1,
                      drain(buf, 4 + data_length + 1))

Packet_from_bytes(buf) ==
    IF Len(buf) = 0 THEN ParseErr("IncompleteInput", buf)       \* first()
    ELSE IF buf[1] # HEADER THEN ParseErr("InvalidHeader", buf)
    ELSE IF Len(buf) < 2 THEN ParseErr("IncompleteInput", buf)  \* get(1)
    ELSE IF Len(buf) < 3 THEN ParseErr("IncompleteInput", buf)  \* get(2)
    ELSE IF Len(buf) < 4 THEN ParseErr("IncompleteInput", buf)  \* get(3)
    ELSE LET command == buf[2]
             display_id == buf[3]
             data_length == buf[4]
         IN
         IF Len(buf) < 4 + data_length + 1                \* get(4+data_length)
         THEN ParseErr("IncompleteInput", buf)
         ELSE LET given_checksum == buf[4 + data_length + 1] IN
              IF received_checksum(buf, data_length) # given_checksum
              THEN ParseErr("InvalidChecksum", buf)
              ELSE IF Len(buf) <= 4 + data_length
              THEN ParseErr("IncompleteInput", buf)
              ELSE ParseOk(Packet_new(command, display_id,
                                      SubSeq(buf, 5, 4 + data_length)),
                           4 + data_length + 1,
                           drain(buf, 4 + data_length + 1))

----------------------------------------------------------------------------
(* lib.rs : crate::Error, and the Result values of the session calls       *)

NoResult == [tag |-> "None", err |-> "", packet |-> None, status |-> ""]
Ok_unit == [tag |-> "Ok", err |-> "", packet |-> None, status |-> ""]
Ok_packet(p) ==
    [tag |-> "Ok", err |-> "", packet |-> Some(p), status |-> ""]
Ok_status(st) == [tag |-> "Ok", err |-> "", packet |-> None, status |-> st]
Err_Io == [tag |-> "Io", err |-> "", packet |-> None, status |-> ""]
Err_InvalidPacket(e) ==
    [tag |-> "InvalidPacket", err |-> e, packet |-> None, status |-> ""]
Err_UnexpectedEndOfStream ==
    [tag |-> "UnexpectedEndOfStream", err |-> "", packet |-> None,
     status |-> ""]
Err_UnexpectedResponse(p) ==
    [tag |-> "UnexpectedResponse", err |-> "", packet |-> Some(p),
     status |-> ""]
Err_Nack(p) ==
    [tag |-> "Nack", err |-> "", packet |-> Some(p), status |-> ""]
\* the error `?` makes of an InvalidValueError
Err_InvalidValue ==
    [tag |-> "InvalidValue", err |-> "", packet |-> None, status |-> ""]

----------------------------------------------------------------------------
(* client.rs : MDCSession                                                  *)

\* One pass of the match at the top of recv_packet's loop.
recv_packet_match_keeps_buffer(buf) ==
    LET r == Packet_from_bytes(buf) IN
    IF r.ok
    THEN [next |-> "return", buffer |-> r.input,
          result |-> Ok_packet(r.packet[1])]
    ELSE IF r.err = "IncompleteInput"
    THEN [next |-> "read", buffer |-> buf, result |-> NoResult]
    ELSE [next |-> "return", buffer |-> buf,
          result |-> Err_InvalidPacket(r.err)]

recv_packet_match_returns_without_drain(buf) ==
    LET r == Packet_from_bytes(buf) IN
    IF r.ok
    THEN [next |-> "return", buffer |-> buf,
          result |-> Ok_packet(r.packet[1])]
    ELSE IF r.err = "IncompleteInput"
    THEN [next |-> "read", buffer |-> buf, result |-> NoResult]
    ELSE [next |-> "return", buffer |-> <<>>,
          result |-> Err_InvalidPacket(r.err)]

recv_packet_match_reads_on_bad_checksum(buf) ==
    LET r == Packet_from_bytes(buf) IN
    IF r.ok
    THEN [next |-> "return", buffer |-> r.input,
          result |-> Ok_packet(r.packet[1])]
    ELSE IF r.err \in {"IncompleteInput", "InvalidChecksum"}
    THEN [next |-> "read", buffer |-> buf, result |-> NoResult]
    ELSE [next |-> "return", buffer |-> <<>>,
          result |-> Err_InvalidPacket(r.err)]

recv_packet_match(buf) ==
    LET r == Packet_from_bytes(buf) IN
    IF r.ok
    THEN [next |-> "return", buffer |-> r.input,
          result |-> Ok_packet(r.packet[1])]
    ELSE IF r.err = "IncompleteInput"
    THEN [next |-> "read", buffer |-> buf, result |-> NoResult]
    ELSE [next |-> "return", buffer |-> <<>>,             \* buffer.clear()
          result |-> Err_InvalidPacket(r.err)]

\* What recv_packet does with the outcome of stream.read: rd.ok is FALSE for
\* an io::Error, otherwise rd.bytes are the bytes the read returned.
recv_packet_read_zero_retries(buf, rd) ==
    IF ~rd.ok
    THEN [next |-> "return", buffer |-> buf, result |-> Err_Io]
    ELSE [next |-> "decode", buffer |-> buf \o rd.bytes, result |-> NoResult]

recv_packet_read_prepends(buf, rd) ==
    IF ~rd.ok
    THEN [next |-> "return", buffer |-> buf, result |-> Err_Io]
    ELSE IF Len(rd.bytes) = 0
    THEN [next |-> "return", buffer |-> buf,
          result |-> Err_UnexpectedEndOfStream]
    ELSE [next |-> "decode", buffer |-> rd.bytes \o buf, result |-> NoResult]

recv_packet_read_clears_on_error(buf, rd) ==
    IF ~rd.ok
    THEN [next |-> "return", buffer |-> <<>>, result |-> Err_Io]
    ELSE IF Len(rd.bytes) = 0
    THEN [next |-> "return", buffer |-> <<>>,
          result |-> Err_UnexpectedEndOfStream]
    ELSE [next |-> "decode", buffer |-> buf \o rd.bytes, result |-> NoResult]

recv_packet_read_retries_on_error(buf, rd) ==
    IF ~rd.ok
    THEN [next |-> "decode", buffer |-> buf, result |-> NoResult]
    ELSE IF Len(rd.bytes) = 0
    THEN [next |-> "return", buffer |-> buf,
          result |-> Err_UnexpectedEndOfStream]
    ELSE [next |-> "decode", buffer |-> buf \o rd.bytes, result |-> NoResult]

recv_packet_read(buf, rd) ==
    IF ~rd.ok
    THEN [next |-> "return", buffer |-> buf, result |-> Err_Io]      \* `?`
    ELSE IF Len(rd.bytes) = 0
    THEN [next |-> "return", buffer |-> buf,
          result |-> Err_UnexpectedEndOfStream]
    ELSE [next |-> "decode", buffer |-> buf \o rd.bytes,  \* extend_from_slice
          result |-> NoResult]

\* The tail of send_packet_ack, once recv_packet has returned `response`.
send_packet_ack_check_nack_first(response) ==
    IF Len(response.data) = 0 \/ response.data[1] # ASCII_A
    THEN Err_Nack(response)
    ELSE IF response.command # ACK_NACK
    THEN Err_UnexpectedResponse(response)
    ELSE Ok_packet(response)

send_packet_ack_check(response) ==
    IF response.command # ACK_NACK
    THEN Err_UnexpectedResponse(response)
    ELSE IF Len(response.data) = 0 \/ response.data[1] # ASCII_A
    THEN Err_Nack(response)
    ELSE Ok_packet(response)

----------------------------------------------------------------------------
(* client.rs : PowerStatus, PanelStatus and the status queries             *)

PowerStatus_from_bytes_zero_is_off(byte) ==
    IF byte = 0 THEN Ok_status("Off")
    ELSE IF byte = 1 THEN Ok_status("On")
    ELSE Err_InvalidValue

PowerStatus_from_bytes(byte) ==
    IF byte = 0 THEN Ok_status("On")
    ELSE IF byte = 1 THEN Ok_status("Off")
    ELSE Err_InvalidValue

PanelStatus_from_bytes(byte) ==
    IF byte = 0 THEN Ok_status("Off")
    ELSE IF byte = 1 THEN Ok_status("On")
    ELSE Err_InvalidValue

\* the tail of get_power_status, once send_packet_ack has returned `response`
get_power_status_value_at_offset_1(response) ==
    IF Len(response.data) < 2
    THEN Err_InvalidPacket("IncompleteInput")
    ELSE PowerStatus_from_bytes(response.data[2])

get_power_status_value(response) ==
    IF Len(response.data) < 3                            \* data.get(2)
    THEN Err_InvalidPacket("IncompleteInput")
    ELSE PowerStatus_from_bytes(response.data[3])

\* the tail of get_panel_status, once send_packet_ack has returned `response`
get_panel_status_value(response) ==
    IF Len(response.data) < 3
    THEN Err_InvalidPacket("IncompleteInput")
    ELSE PanelStatus_from_bytes(response.data[3])

DisplayCommandBuilder_get_panel_status(display_id) ==
    Packet_new(PANEL_ON_OFF, display_id, <<>>)
DisplayCommandBuilder_get_power_status(display_id) ==
    Packet_new(POWER_CONTROL, display_id, <<>>)

----------------------------------------------------------------------------
(* client.rs : the packets built by the two command builders               *)

DisplayCommandBuilder_set_panel_off(display_id) ==
    Packet_new(PANEL_ON_OFF, display_id, <<1>>)
DisplayCommandBuilder_set_panel_on(display_id) ==
    Packet_new(PANEL_ON_OFF, display_id, <<0>>)
DisplayCommandBuilder_set_power_off(display_id) ==
    Packet_new(POWER_CONTROL, display_id, <<0>>)
DisplayCommandBuilder_set_power_on_sends_zero(display_id) ==
    Packet_new(POWER_CONTROL, display_id, <<0>>)
DisplayCommandBuilder_set_power_on(display_id) ==
    Packet_new(POWER_CONTROL, display_id, <<1>>)

BroadcastCommandBuilder_set_panel_off ==
    Packet_new(PANEL_ON_OFF, DISPLAY_BROADCAST, <<1>>)
BroadcastCommandBuilder_set_panel_on ==
    Packet_new(PANEL_ON_OFF, DISPLAY_BROADCAST, <<0>>)
BroadcastCommandBuilder_set_power_off ==
    Packet_new(POWER_CONTROL, DISPLAY_BROADCAST, <<0>>)
BroadcastCommandBuilder_set_power_on ==
    Packet_new(POWER_CONTROL, DISPLAY_BROADCAST, <<1>>)

SetNames == {"set_panel_off", "set_panel_on", "set_power_off", "set_power_on"}

\* the packet an addressed mutating command hands to send_packet_ack
AddressedRequest(name, display_id) ==
    CASE name = "set_panel_off" -> DisplayCommandBuilder_set_panel_off(display_id)
      [] name = "set_panel_on" -> DisplayCommandBuilder_set_panel_on(display_id)
      [] name = "set_power_off" -> DisplayCommandBuilder_set_power_off(display_id)
      [] name = "set_power_on" -> DisplayCommandBuilder_set_power_on(display_id)

\* the packet a broadcast mutating command hands to send_packet
BroadcastRequest(name) ==
    CASE name = "set_panel_off" -> BroadcastCommandBuilder_set_panel_off
      [] name = "set_panel_on" -> BroadcastCommandBuilder_set_panel_on
      [] name = "set_power_off" -> BroadcastCommandBuilder_set_power_off
      [] name = "set_power_on" -> BroadcastCommandBuilder_set_power_on

----------------------------------------------------------------------------
(* Inputs of the model                                                     *)

\* packets handed to the codec
CodecCommands == {POWER_CONTROL, 74, ACK_NACK}
CodecIds == {0, DISPLAY_BROADCAST}
CodecData == {0, 1, 255}
CodecPackets ==
    { Packet_new(c, t, d) :
        c \in CodecCommands, t \in CodecIds, d \in SeqsUpTo(CodecData, MaxLen) }

\* raw buffers handed to from_bytes
RawBytes == {0, 1, HEADER, 255}
RawBuffers == SeqsUpTo(RawBytes, MaxBuf)

\* display ids and packets the caller of the session uses
DisplayIds == {0, 1}
CallerPackets ==
    { Packet_new(POWER_CONTROL, 1, <<>>), Packet_new(74, 0, <<0>>) }

\* what the peer may put on the wire: whole frames, and damaged ones
PeerFrames ==
    { Packet_new(ACK_NACK, 0, <<ASCII_A>>),
      Packet_new(ACK_NACK, 1, <<ASCII_A, POWER_CONTROL, 1>>),
      Packet_new(ACK_NACK, 0, <<78, POWER_CONTROL, 0>>),
      Packet_new(ACK_NACK, 0, <<>>),
      Packet_new(POWER_CONTROL, 0, <<ASCII_A>>),
      Packet_new(POWER_CONTROL, 1, <<>>),
      Packet_new(ACK_NACK, DISPLAY_BROADCAST, <<0, ASCII_A>>) }
BadChecksumFrame == <<HEADER, ACK_NACK, 0, 1, ASCII_A, 0>>
BadHeaderByte == <<0>>
PeerChunks ==
    { into_bytes(f) : f \in PeerFrames } \cup {BadChecksumFrame, BadHeaderByte}

----------------------------------------------------------------------------
(* The codec specification: into_bytes and from_bytes applied to inputs    *)

NoPacket == Packet_new(0, 0, <<>>)
NoParse == [ok |-> FALSE, packet |-> None, bytes_red |-> 0, err |-> ""]
NoIo == [kind |-> "none", ok |-> TRUE, n |-> 0]
NoOp == [name |-> "none", via |-> "session", display_id |-> None,
         request |-> None]

SessionIdle ==
    /\ buffer = <<>>          \* Vec::with_capacity(INIT_BUFFER_SIZE) is empty
    /\ inbound = <<>>
    /\ outbound = <<>>
    /\ pc = "idle"
    /\ op = NoOp
    /\ result = NoResult
    /\ io = NoIo

AuxIdle ==
    /\ sent = <<>>
    /\ got = <<>>
    /\ nreads = 0
    /\ power = "off"
    /\ panel = "off"
    /\ requests = <<>>
    /\ replies = <<>>
    /\ paired = TRUE
    /\ lastPower = "none"

CodecInit ==
    /\ SessionIdle
    /\ AuxIdle
    /\ out = NoParse
    /\ \/ /\ cstage = "new"
          /\ pkt \in CodecPackets
          /\ input = <<>>
          /\ before = <<>>
       \/ /\ cstage = "raw"
          /\ pkt = NoPacket
          /\ input \in RawBuffers
          /\ before = input

\* let bytes = packet.into_bytes();
CodecIntoBytes ==
    /\ cstage = "new"
    /\ input' = into_bytes(pkt)
    /\ before' = into_bytes(pkt)
    /\ cstage' = "encoded"
    /\ UNCHANGED <<pkt, out>>
    /\ UNCHANGED sessionVars
    /\ UNCHANGED <<streamVars, displayVars>>

\* Packet::from_bytes(&mut input)
CodecFromBytes ==
    /\ cstage \in {"raw", "encoded"}
    /\ LET r == Packet_from_bytes(input) IN
       /\ out' = [ok |-> r.ok, packet |-> r.packet, bytes_red |-> r.bytes_red,
                  err |-> r.err]
       /\ input' = r.input
    /\ before' = input
    /\ cstage' = IF cstage = "raw" THEN "parsed_raw" ELSE "parsed_encoded"
    /\ UNCHANGED pkt
    /\ UNCHANGED sessionVars
    /\ UNCHANGED <<streamVars, displayVars>>

CodecNext == CodecIntoBytes \/ CodecFromBytes

SpecCodec == CodecInit /\ [][CodecNext]_vars

----------------------------------------------------------------------------
(* The session specification                                               *)

Init ==
    /\ SessionIdle
    /\ pkt = NoPacket
    /\ input = <<>>
    /\ before = <<>>
    /\ out = NoParse
    /\ cstage = "off"
    /\ AuxIdle

\* how many bytes a failing write_all may already have written: always a
\* proper prefix; the model tries the shortest and the longest
WriteFailPoints(bytes) == {0, Len(bytes) - 1}

\* stream.write_all(bytes): either every byte is written, or the write fails
\* after a proper prefix of them
StreamWriteAll(bytes, pcOnOk, resultOnOk) ==
    \/ /\ outbound' = bytes
       /\ io' = [kind |-> "write", ok |-> TRUE, n |-> Len(bytes)]
       /\ pc' = pcOnOk
       /\ result' = resultOnOk
    \/ \E k \in WriteFailPoints(bytes) :
          /\ outbound' = SubSeq(bytes, 1, k)
          /\ io' = [kind |-> "write", ok |-> FALSE, n |-> k]
          /\ pc' = "idle"
          /\ result' = Err_Io

\* stream.read(&mut [0; INIT_BUFFER_SIZE]): an error, zero bytes, or a
\* non-empty prefix of what the peer has sent
ReadOutcomes(inb) ==
    { [ok |-> FALSE, bytes |-> <<>>], [ok |-> TRUE, bytes |-> <<>>] }
    \cup { [ok |-> TRUE, bytes |-> SubSeq(inb, 1, n)] :
             n \in 1..Min(Len(inb), INIT_BUFFER_SIZE) }

\* what the operation in progress returns once recv_packet has returned r
Finish(o, r) ==
    IF o.name = "recv_packet" THEN r
    ELSE LET acked == IF r.tag = "Ok" THEN send_packet_ack_check(r.packet[1])
                      ELSE r
         IN IF o.name = "send_packet_ack" THEN acked
            ELSE IF acked.tag # "Ok" THEN acked
            ELSE IF o.name = "get_power_status"
                 THEN get_power_status_value(acked.packet[1])
            ELSE IF o.name = "get_panel_status"
                 THEN get_panel_status_value(acked.packet[1])
            ELSE Ok_unit

recv_packet_reads_first ==
    /\ pc = "idle"
    /\ op' = [name |-> "recv_packet", via |-> "session", display_id |-> None,
              request |-> None]
    /\ pc' = "read"
    /\ outbound' = <<>>
    /\ io' = NoIo
    /\ result' = NoResult
    /\ UNCHANGED <<buffer, inbound>>
    /\ UNCHANGED codecVars

recv_packet ==
    /\ pc = "idle"
    /\ op' = [name |-> "recv_packet", via |-> "session", display_id |-> None,
              request |-> None]
    /\ pc' = "decode"
    /\ outbound' = <<>>
    /\ io' = NoIo
    /\ result' = NoResult
    /\ UNCHANGED <<buffer, inbound>>
    /\ UNCHANGED codecVars

send_packet(p) ==
    /\ pc = "idle"
    /\ op' = [name |-> "send_packet", via |-> "session", display_id |-> None,
              request |-> Some(p)]
    /\ StreamWriteAll(into_bytes(p), "idle", Ok_unit)
    /\ UNCHANGED <<buffer, inbound>>
    /\ UNCHANGED codecVars

send_packet_ack(p) ==
    /\ pc = "idle"
    /\ op' = [name |-> "send_packet_ack", via |-> "session",
              display_id |-> None, request |-> Some(p)]
    /\ StreamWriteAll(into_bytes(p), "decode", NoResult)
    /\ UNCHANGED <<buffer, inbound>>
    /\ UNCHANGED codecVars

\* session.display(display_id).set_*()
DisplaySet(name, display_id) ==
    /\ pc = "idle"
    /\ op' = [name |-> name, via |-> "display", display_id |-> Some(display_id),
              request |-> Some(AddressedRequest(name, display_id))]
    /\ StreamWriteAll(into_bytes(AddressedRequest(name, display_id)),
                      "decode", NoResult)
    /\ UNCHANGED <<buffer, inbound>>
    /\ UNCHANGED codecVars

\* session.display(display_id).get_power_status()
get_power_status(display_id) ==
    /\ pc = "idle"
    /\ op' = [name |-> "get_power_status", via |-> "display",
              display_id |-> Some(display_id),
              request |-> Some(DisplayCommandBuilder_get_power_status(display_id))]
    /\ StreamWriteAll(
          into_bytes(DisplayCommandBuilder_get_power_status(display_id)),
          "decode", NoResult)
    /\ UNCHANGED <<buffer, inbound>>
    /\ UNCHANGED codecVars

\* session.display(display_id).get_panel_status()
get_panel_status(display_id) ==
    /\ pc = "idle"
    /\ op' = [name |-> "get_panel_status", via |-> "display",
              display_id |-> Some(display_id),
              request |-> Some(DisplayCommandBuilder_get_panel_status(display_id))]
    /\ StreamWriteAll(
          into_bytes(DisplayCommandBuilder_get_panel_status(display_id)),
          "decode", NoResult)
    /\ UNCHANGED <<buffer, inbound>>
    /\ UNCHANGED codecVars

BroadcastSet_awaits_ack(name) ==
    /\ pc = "idle"
    /\ op' = [name |-> name, via |-> "all_displays", display_id |-> None,
              request |-> Some(BroadcastRequest(name))]
    /\ StreamWriteAll(into_bytes(BroadcastRequest(name)), "decode", NoResult)
    /\ UNCHANGED <<buffer, inbound>>
    /\ UNCHANGED codecVars

\* session.all_displays().set_*()
BroadcastSet(name) ==
    /\ pc = "idle"
    /\ op' = [name |-> name, via |-> "all_displays", display_id |-> None,
              request |-> Some(BroadcastRequest(name))]
    /\ StreamWriteAll(into_bytes(BroadcastRequest(name)), "idle", Ok_unit)
    /\ UNCHANGED <<buffer, inbound>>
    /\ UNCHANGED codecVars

\* recv_packet, loop top: match Packet::from_bytes(&mut self.buffer)
RecvDecode ==
    /\ pc = "decode"
    /\ LET m == recv_packet_match(buffer) IN
       /\ buffer' = m.buffer
       /\ pc' = IF m.next = "read" THEN "read" ELSE "idle"
       /\ result' = IF m.next = "read" THEN result ELSE Finish(op, m.result)
    /\ UNCHANGED <<inbound, outbound, op, io>>
    /\ UNCHANGED codecVars

\* recv_packet, loop bottom: self.stream.read(&mut buffer)? and what follows
RecvRead ==
    /\ pc = "read"
    /\ \E rd \in ReadOutcomes(inbound) :
          LET m == recv_packet_read(buffer, rd) IN
          /\ buffer' = m.buffer
          /\ inbound' = drain(inbound, Len(rd.bytes))
          /\ io' = [kind |-> "read", ok |-> rd.ok, n |-> Len(rd.bytes)]
          /\ pc' = IF m.next = "decode" THEN "decode" ELSE "idle"
          /\ result' = IF m.next = "decode" THEN result
                       ELSE Finish(op, m.result)
    /\ UNCHANGED <<outbound, op>>
    /\ UNCHANGED codecVars

\* the peer puts a chunk on the wire
PeerSend(chunk) ==
    /\ Len(inbound) + Len(buffer) + Len(chunk) <= MaxPending
    /\ inbound' = inbound \o chunk
    /\ UNCHANGED <<buffer, outbound, pc, op, result, io>>
    /\ UNCHANGED codecVars

\* the stream and display bookkeeping plays no part in this specification
NoAux == UNCHANGED <<streamVars, displayVars>>

Next ==
    \/ recv_packet /\ NoAux
    \/ \E p \in CallerPackets : send_packet(p) /\ NoAux
    \/ \E p \in CallerPackets : send_packet_ack(p) /\ NoAux
    \/ \E name \in SetNames, id \in DisplayIds : DisplaySet(name, id) /\ NoAux
    \/ \E name \in SetNames : BroadcastSet(name) /\ NoAux
    \/ RecvDecode /\ NoAux
    \/ RecvRead /\ NoAux
    \/ \E chunk \in PeerChunks : PeerSend(chunk) /\ NoAux

Spec == Init /\ [][Next]_vars

----------------------------------------------------------------------------
(* The status-query specification: the two queries against any reply       *)

\* replies a peer may give to a status query: the value byte at offset 2 is
\* 0, 1 or something else, the payload may be too short, the reply a NACK
StatusReplies ==
    { Packet_new(ACK_NACK, 0, <<ASCII_A, POWER_CONTROL, 0>>),
      Packet_new(ACK_NACK, 1, <<ASCII_A, PANEL_ON_OFF, 1>>),
      Packet_new(ACK_NACK, 0, <<ASCII_A, POWER_CONTROL, 2>>),
      Packet_new(ACK_NACK, 0, <<ASCII_A, 1>>),
      Packet_new(ACK_NACK, 0, <<78, POWER_CONTROL, 0>>),
      Packet_new(POWER_CONTROL, 0, <<ASCII_A, 0, 1>>) }
StatusChunks == { into_bytes(f) : f \in StatusReplies }

NextQuery ==
    \/ \E id \in DisplayIds : get_power_status(id) /\ NoAux
    \/ \E id \in DisplayIds : get_panel_status(id) /\ NoAux
    \/ RecvDecode /\ NoAux
    \/ RecvRead /\ NoAux
    \/ \E chunk \in StatusChunks : PeerSend(chunk) /\ NoAux

SpecQuery == Init /\ [][NextQuery]_vars

----------------------------------------------------------------------------
(* The stream specification: recv_packet against a peer that sends valid   *)
(* frames, which the reads deliver in chunks of any size                   *)

\* frames the peer sends; one carries the header value inside its payload
StreamFrames ==
    { Packet_new(ACK_NACK, 0, <<>>),
      Packet_new(ACK_NACK, 1, <<ASCII_A>>),
      Packet_new(POWER_CONTROL, 0, <<HEADER, 255>>) }

\* the bytes of a sequence of frames, one after the other
RECURSIVE Flatten(_)
Flatten(frames) ==
    IF Len(frames) = 0 THEN <<>>
    ELSE into_bytes(Head(frames)) \o Flatten(Tail(frames))

StreamPeerSend(f) ==
    /\ Len(sent) < MaxFrames
    /\ inbound' = inbound \o into_bytes(f)
    /\ sent' = Append(sent, f)
    /\ UNCHANGED <<buffer, outbound, pc, op, result, io>>
    /\ UNCHANGED codecVars
    /\ UNCHANGED <<got, nreads>>
    /\ UNCHANGED displayVars

StreamRecvPacket ==
    /\ recv_packet
    /\ nreads' = 0
    /\ UNCHANGED <<sent, got>>
    /\ UNCHANGED displayVars

StreamRecvDecode ==
    /\ RecvDecode
    /\ got' = IF pc' = "idle" /\ result'.tag = "Ok"
              THEN Append(got, result'.packet[1])
              ELSE got
    /\ UNCHANGED <<sent, nreads>>
    /\ UNCHANGED displayVars

StreamRecvRead ==
    /\ RecvRead
    /\ nreads' = nreads + 1
    /\ UNCHANGED <<sent, got>>
    /\ UNCHANGED displayVars

NextStream ==
    \/ \E f \in StreamFrames : StreamPeerSend(f)
    \/ StreamRecvPacket
    \/ StreamRecvDecode
    \/ StreamRecvRead

SpecStream == Init /\ [][NextStream]_vars

\* every read returns, and the code between two reads runs
SpecStreamFair ==
    /\ SpecStream
    /\ WF_vars(StreamRecvDecode)
    /\ WF_vars(StreamRecvRead)

----------------------------------------------------------------------------
(* The display specification: the command builders against a display that  *)
(* receives every frame written whole, applies it, and answers it with one  *)
(* reply frame.  The display reads command payloads by the command table    *)
(* and reports its state by the status table of the specification.          *)

\* the state a mutating command's payload byte asks for (command table)
CommandedState(command, byte) ==
    IF command = POWER_CONTROL
    THEN (IF byte = 1 THEN "on" ELSE "off")
    ELSE (IF byte = 0 THEN "on" ELSE "off")

\* the byte by which a state is reported (status table)
ReportedByte(command, state) ==
    IF command = POWER_CONTROL
    THEN (IF state = "on" THEN 0 ELSE 1)
    ELSE (IF state = "on" THEN 1 ELSE 0)

\* the reply of the display to frame f, in the states pw (power), pn (panel)
DisplayAnswer(f, pw, pn) ==
    IF Len(f.data) = 0
    THEN Packet_new(ACK_NACK, f.display_id,
                    <<ASCII_A, f.command,
                      ReportedByte(f.command,
                                   IF f.command = POWER_CONTROL THEN pw
                                   ELSE pn)>>)
    ELSE Packet_new(ACK_NACK, f.display_id,
                    <<ASCII_A, f.command, f.data[1]>>)

InitDisplay ==
    /\ SessionIdle
    /\ pkt = NoPacket
    /\ input = <<>>
    /\ before = <<>>
    /\ out = NoParse
    /\ cstage = "off"
    /\ sent = <<>>
    /\ got = <<>>
    /\ nreads = 0
    /\ power \in {"on", "off"}
    /\ panel \in {"on", "off"}
    /\ requests = <<>>
    /\ replies = <<>>
    /\ paired = TRUE
    /\ lastPower = "none"

\* a new call begins: what is still in flight answers earlier calls
StaleRequests == [i \in 1..Len(requests) |-> [requests[i] EXCEPT !.fresh = FALSE]]
StaleReplies == [i \in 1..Len(replies) |-> FALSE]

\* the bookkeeping of a call that writes a request: the display receives the
\* frame if the write went through
Submit ==
    /\ Len(requests) + Len(replies) < MaxUnread
    /\ requests' = IF io'.ok
                   THEN Append(StaleRequests,
                               [frame |-> op'.request[1], fresh |-> TRUE])
                   ELSE StaleRequests
    /\ replies' = StaleReplies
    /\ lastPower' = IF pc' = "idle" THEN "lost" ELSE lastPower
    /\ UNCHANGED <<power, panel, paired>>
    /\ UNCHANGED streamVars

DisplayAddressedSet(name, id) == DisplaySet(name, id) /\ Submit
DisplayBroadcastSet(name) == BroadcastSet(name) /\ Submit
DisplayGetPower(id) == get_power_status(id) /\ Submit
DisplayGetPanel(id) == get_panel_status(id) /\ Submit

\* what the caller knows of the power state once a call has returned r
PowerKnown(r) ==
    IF r.tag # "Ok" \/ lastPower = "lost" THEN "lost"
    ELSE IF op.name = "set_power_on" THEN "On"
    ELSE IF op.name = "set_power_off" THEN "Off"
    ELSE lastPower

DisplayRecvDecode ==
    /\ RecvDecode
    /\ IF Packet_from_bytes(buffer).ok
       THEN /\ replies' = Tail(replies)
            /\ paired' = Head(replies)
       ELSE UNCHANGED <<replies, paired>>
    /\ lastPower' = IF pc' = "idle" THEN PowerKnown(result') ELSE lastPower
    /\ UNCHANGED <<power, panel, requests>>
    /\ UNCHANGED streamVars

\* the length of a reply frame of the display
ReplyLen == Len(into_bytes(DisplayAnswer(Packet_new(POWER_CONTROL, 0, <<>>),
                                         "on", "on")))

\* the transport hands over the replies pending whole or in halves
DisplayReadSizes(inb) ==
    {0, Len(inb)} \cup {n \in 1..Len(inb) : n % (ReplyLen \div 2) = 0}

DisplayRecvRead ==
    /\ RecvRead
    /\ io'.n \in DisplayReadSizes(inbound)
    /\ lastPower' = IF pc' = "idle" THEN "lost" ELSE lastPower
    /\ UNCHANGED <<power, panel, requests, replies, paired>>
    /\ UNCHANGED streamVars

\* the display applies the oldest frame it has received and answers it
DisplayReply ==
    /\ requests # <<>>
    /\ LET f == Head(requests).frame IN
       /\ inbound' = inbound \o into_bytes(DisplayAnswer(f, power, panel))
       /\ power' = IF f.command = POWER_CONTROL /\ Len(f.data) > 0
                   THEN CommandedState(f.command, f.data[1]) ELSE power
       /\ panel' = IF f.command = PANEL_ON_OFF /\ Len(f.data) > 0
                   THEN CommandedState(f.command, f.data[1]) ELSE panel
    /\ replies' = Append(replies, Head(requests).fresh)
    /\ requests' = Tail(requests)
    /\ UNCHANGED <<buffer, outbound, pc, op, result, io>>
    /\ UNCHANGED codecVars
    /\ UNCHANGED streamVars
    /\ UNCHANGED <<paired, lastPower>>

NextDisplay ==
    \/ \E name \in SetNames, id \in DisplayIds : DisplayAddressedSet(name, id)
    \/ \E name \in SetNames : DisplayBroadcastSet(name)
    \/ \E id \in DisplayIds : DisplayGetPower(id)
    \/ \E id \in DisplayIds : DisplayGetPanel(id)
    \/ DisplayRecvDecode
    \/ DisplayRecvRead
    \/ DisplayReply

SpecDisplay == InitDisplay /\ [][NextDisplay]_vars

----------------------------------------------------------------------------
(* Properties of the codec, checked under SpecCodec                        *)

Parsed == cstage \in {"parsed_raw", "parsed_encoded"}

\* the length a frame must have, given the length byte at offset 3
FrameLen(buf) == 4 + buf[4] + 1

\* C1: decoding a buffer that holds exactly the encoding of a packet succeeds,
\* returns the original command, target and payload, and reports
\* 4 + len(payload) + 1 consumed bytes.
C1_RoundTrip ==
    cstage = "parsed_encoded" =>
        /\ out.ok
        /\ out.packet = <<pkt>>
        /\ out.bytes_red = 4 + Len(pkt.data) + 1

C1_Witness ==
    /\ cstage = "parsed_encoded"
    /\ out.ok
    /\ Len(pkt.data) = 2
    /\ pkt.command + pkt.display_id + 2 + SumSeq(pkt.data) > 255

\* C2: into_bytes yields the N+5 bytes [0xAA, command, target, N, payload...,
\* checksum] with checksum = (command + target + N + sum of payload) mod 256;
\* (0x11, 0xFE, [1]) has checksum 0x11 and (0x4A, 0, [0]) encodes to
\* AA 4A 00 01 00 4B.
C2_EncodeLayout ==
    cstage = "encoded" =>
        LET N == Len(pkt.data) IN
        /\ Len(input) = N + 5
        /\ input[1] = 170
        /\ input[2] = pkt.command
        /\ input[3] = pkt.display_id
        /\ input[4] = N
        /\ \A i \in 1..N : input[4 + i] = pkt.data[i]
        /\ input[N + 5] =
             (pkt.command + pkt.display_id + N + SumSeq(pkt.data)) % 256
        /\ (pkt = Packet_new(17, 254, <<1>>) => input[N + 5] = 17)
        /\ (pkt = Packet_new(74, 0, <<0>>) => input = <<170, 74, 0, 1, 0, 75>>)

C2_Witness ==
    /\ cstage = "encoded"
    /\ pkt = Packet_new(17, 254, <<1>>)
    /\ input = <<170, 17, 254, 1, 1, 17>>

\* C3: a successful from_bytes on a buffer whose length byte is N removes
\* exactly the first 4 + N + 1 bytes, returns that count, and leaves the bytes
\* after them unchanged and in order.
C3_ConsumesOneFrame ==
    (Parsed /\ out.ok) =>
        LET n == FrameLen(before) IN
        /\ out.bytes_red = n
        /\ Len(input) = Len(before) - n
        /\ \A i \in 1..Len(input) : input[i] = before[n + i]

C3_Witness ==
    /\ cstage = "parsed_raw"
    /\ out.ok
    /\ Len(before) = FrameLen(before) + 2
    /\ input = <<170, 255>>

\* C4: whenever from_bytes returns an error the buffer is byte-for-byte what
\* it was before the call, and the error is one of the three kinds
\* (incomplete input, invalid header, invalid checksum).
C4_ErrorKeepsBuffer ==
    (Parsed /\ ~out.ok) =>
        /\ input = before
        /\ out.err \in {"IncompleteInput", "InvalidHeader", "InvalidChecksum"}
        /\ out.packet = None

C4_Witness ==
    /\ cstage = "parsed_raw"
    /\ ~out.ok
    /\ out.err = "InvalidChecksum"
    /\ Len(before) > FrameLen(before)
    /\ input = before

TooShort(buf) == Len(buf) < 4 \/ Len(buf) < FrameLen(buf)

\* C5 as stated: every buffer that is empty, shorter than the 4-byte header or
\* shorter than 4 + payload-length + 1 bytes is reported as incomplete input,
\* and invalid checksum is reported only for buffers of at least
\* 4 + payload-length + 1 bytes.
C5_ShortIsIncomplete ==
    Parsed =>
        /\ (TooShort(before) => (~out.ok /\ out.err = "IncompleteInput"))
        /\ ((~out.ok /\ out.err = "InvalidChecksum") => ~TooShort(before))

\* C5 amended: a buffer that is empty, or that begins with 0xAA and is shorter
\* than the 4-byte header or than 4 + payload-length + 1 bytes, is reported as
\* incomplete input; a non-empty buffer whose first byte is not 0xAA is
\* reported as invalid header whatever its length; invalid checksum is
\* reported only for buffers of at least 4 + payload-length + 1 bytes.
C5_ShortIsIncompleteAfterHeader ==
    Parsed =>
        /\ (Len(before) = 0 => (~out.ok /\ out.err = "IncompleteInput"))
        /\ ((Len(before) > 0 /\ before[1] = 170 /\ TooShort(before))
              => (~out.ok /\ out.err = "IncompleteInput"))
        /\ ((Len(before) > 0 /\ before[1] # 170)
              => (~out.ok /\ out.err = "InvalidHeader"))
        /\ ((~out.ok /\ out.err = "InvalidChecksum") => ~TooShort(before))

C5_Witness ==
    /\ cstage = "parsed_raw"
    /\ Len(before) >= 4
    /\ before[1] = 170
    /\ Len(before) = FrameLen(before) - 1
    /\ out.err = "IncompleteInput"

----------------------------------------------------------------------------
(* Properties of the session, checked under Spec                           *)

\* the step in which recv_packet matches on the outcome of from_bytes: the
\* only step that leaves the position "decode"
DecodeStep == pc = "decode" /\ pc' # "decode"

FramingError(buf) ==
    /\ ~Packet_from_bytes(buf).ok
    /\ Packet_from_bytes(buf).err \in {"InvalidHeader", "InvalidChecksum"}

\* C6: when the decode attempt of recv_packet fails with invalid header or
\* invalid checksum, the call empties the accumulation buffer entirely,
\* performs no further read and returns that framing error.
C6_FramingErrorClears ==
    [][(DecodeStep /\ FramingError(buffer)) =>
          /\ buffer' = <<>>
          /\ pc' = "idle"
          /\ result' = [tag |-> "InvalidPacket",
                        err |-> Packet_from_bytes(buffer).err,
                        packet |-> <<>>, status |-> ""]
          /\ inbound' = inbound
          /\ io' = io]_vars

\* a seven-byte read (the six-byte frame with a bad checksum and one byte
\* after it) was decoded, and nothing is left of it
C6_Witness ==
    /\ pc = "idle"
    /\ op.name = "recv_packet"
    /\ result = Err_InvalidPacket("InvalidChecksum")
    /\ io.kind = "read" /\ io.ok /\ io.n = 7
    /\ buffer = <<>>

ZeroRead == io.kind = "read" /\ io.ok /\ io.n = 0

\* C7: a read that returns zero bytes ends recv_packet with the dedicated
\* UnexpectedEndOfStream error: the call does not go on, and it returns
\* neither a packet nor an I/O or framing error.
C7_ZeroReadEndsStream ==
    ZeroRead => (pc = "idle" /\ result = Err_UnexpectedEndOfStream)

C7_Witness ==
    /\ ZeroRead
    /\ op.name = "send_packet_ack"
    /\ Len(buffer) > 0
    /\ result.tag = "UnexpectedEndOfStream"

\* the buffer is extended at its end with exactly the bytes a read returned
GrowsByRead ==
    /\ pc = "read"
    /\ io'.kind = "read" /\ io'.ok /\ io'.n = Len(buffer') - Len(buffer)
    /\ SubSeq(buffer', 1, Len(buffer)) = buffer
    /\ buffer' \o inbound' = buffer \o inbound

\* a whole frame is taken from the front of the buffer
ExtractsFrame ==
    /\ pc = "decode"
    /\ Packet_from_bytes(buffer).ok
    /\ Len(buffer') = Len(buffer) - FrameLen(buffer)
    /\ buffer' = SubSeq(buffer, FrameLen(buffer) + 1, Len(buffer))

\* a framing error empties the buffer
ClearedByFramingError ==
    /\ pc = "decode"
    /\ FramingError(buffer)
    /\ buffer' = <<>>
    /\ result'.tag = "InvalidPacket"

\* C8 as stated: the accumulation buffer grows only by appending the bytes a
\* stream read returned, and its length decreases only in a step that extracts
\* a complete frame from its front, by exactly that frame's 4 + N + 1 bytes.
C8_ShrinksOnlyByFrame ==
    [][/\ (Len(buffer') > Len(buffer) => GrowsByRead)
       /\ (Len(buffer') < Len(buffer) => ExtractsFrame)]_vars

\* C8 amended: the accumulation buffer grows only by appending the bytes a
\* stream read returned, and its length decreases only in a step that extracts
\* a complete frame from its front (by exactly that frame's 4 + N + 1 bytes)
\* or in a step where recv_packet, on an invalid header or invalid checksum,
\* empties it entirely.
C8_ShrinksByFrameOrClear ==
    [][/\ (Len(buffer') > Len(buffer) => GrowsByRead)
       /\ (Len(buffer') < Len(buffer) =>
              (ExtractsFrame \/ ClearedByFramingError))]_vars

\* a frame was extracted and the start of the next one stayed behind
C8_Witness ==
    /\ pc = "idle"
    /\ op.name = "recv_packet"
    /\ result.tag = "Ok"
    /\ io.kind = "read" /\ io.n > 4 + Len(result.packet[1].data) + 1
    /\ Len(buffer) > 0

\* C9: send_packet_ack classifies the reply in this order: a command id other
\* than 0xFF is UnexpectedResponse; otherwise an empty payload or a first
\* payload byte other than 'A' is Nack; otherwise the reply is returned.  The
\* outcome carries the reply and depends on no other field of it.
C9_AckClassification ==
    [][(DecodeStep /\ op.name = "send_packet_ack"
                   /\ Packet_from_bytes(buffer).ok) =>
          LET reply == Packet_from_bytes(buffer).packet[1] IN
          /\ pc' = "idle"
          /\ result'.packet = <<reply>>
          /\ result'.tag =
               IF reply.command # 255 THEN "UnexpectedResponse"
               ELSE IF reply.data = <<>> THEN "Nack"
               ELSE IF reply.data[1] # 65 THEN "Nack"
               ELSE "Ok"]_vars

\* a reply for another display than the one addressed is accepted all the same
C9_Witness ==
    /\ pc = "idle"
    /\ op.name = "send_packet_ack"
    /\ result.tag = "Ok"
    /\ result.packet[1].command = 255
    /\ result.packet[1].data[1] = 65
    /\ result.packet[1].display_id # op.request[1].display_id

\* the command id and payload byte of the table of mutating commands
TableCommand(name) ==
    IF name \in {"set_panel_on", "set_panel_off"} THEN 249 ELSE 17
TableValue(name) ==
    IF name \in {"set_panel_off", "set_power_on"} THEN 1 ELSE 0
TableFrame(name, target) ==
    <<170, TableCommand(name), target, 1, TableValue(name),
      (TableCommand(name) + target + 1 + TableValue(name)) % 256>>

\* the write of the call in progress (or last finished) went through
WriteDone == (io.kind = "write" /\ io.ok) \/ io.kind = "read"

\* C10: a mutating command writes exactly one frame, with the command id and
\* payload of the table (panel on = (0xF9,[0]), panel off = (0xF9,[1]),
\* power on = (0x11,[1]), power off = (0x11,[0])); the addressed variant
\* targets the caller's display id, the broadcast variant 0xFE, and the two
\* variants' frames differ only in the target byte and the checksum.
C10_CommandTable ==
    op.name \in SetNames =>
        LET target == IF op.via = "display" THEN op.display_id[1] ELSE 254
            frame == TableFrame(op.name, target)
            \* the frames the other variant writes for the same action
            others == IF op.via = "display"
                      THEN { into_bytes(BroadcastRequest(op.name)) }
                      ELSE { into_bytes(AddressedRequest(op.name, id)) :
                               id \in DisplayIds }
        IN
        /\ WriteDone => outbound = frame
        /\ ~WriteDone => /\ Len(outbound) < Len(frame)
                         /\ outbound = SubSeq(frame, 1, Len(outbound))
        /\ WriteDone =>
              \A other \in others :
                 /\ Len(other) = Len(outbound)
                 /\ \A i \in 1..Len(other) :
                       i \notin {3, Len(other)} => other[i] = outbound[i]

C10_Witness ==
    /\ op.name = "set_power_on"
    /\ op.via = "display"
    /\ op.display_id = <<1>>
    /\ pc = "idle"
    /\ result = Ok_unit
    /\ outbound = <<170, 17, 1, 1, 1, 20>>

----------------------------------------------------------------------------
(* Properties of the status queries, checked under SpecQuery               *)

StatusQuery == op.name \in {"get_power_status", "get_panel_status"}

\* what the status tables say of a value byte, for each kind of query
TableStatus(name, byte) ==
    IF name = "get_power_status"
    THEN (IF byte = 0 THEN "On" ELSE "Off")
    ELSE (IF byte = 0 THEN "Off" ELSE "On")

\* C11: an addressed status query sends (0x11 for power, 0xF9 for panel), the
\* display id and an empty payload, and derives its result only from the
\* reply's payload byte at offset 2: for power 0x00 is On and 0x01 is Off, for
\* panel 0x00 is Off and 0x01 is On, any other value fails as an invalid
\* status value, and a reply with fewer than 3 payload bytes fails.
C11_StatusQuery ==
    [][/\ (StatusQuery /\ WriteDone) =>
            LET cmd == IF op.name = "get_power_status" THEN 17 ELSE 249
                id == op.display_id[1]
            IN outbound = <<170, cmd, id, 0, (cmd + id) % 256>>
       /\ (DecodeStep /\ StatusQuery /\ Packet_from_bytes(buffer).ok) =>
            LET reply == Packet_from_bytes(buffer).packet[1]
                acked == /\ reply.command = 255
                         /\ reply.data # <<>>
                         /\ reply.data[1] = 65
            IN
            /\ pc' = "idle"
            /\ ~acked => result'.tag \in {"UnexpectedResponse", "Nack"}
            /\ (acked /\ Len(reply.data) < 3) =>
                  /\ result'.tag \notin {"Ok", "None"}
                  /\ result'.status = ""
            /\ (acked /\ Len(reply.data) >= 3 /\ reply.data[3] \in {0, 1}) =>
                  /\ result'.tag = "Ok"
                  /\ result'.status = TableStatus(op.name, reply.data[3])
            /\ (acked /\ Len(reply.data) >= 3 /\ reply.data[3] \notin {0, 1}) =>
                  /\ result'.tag = "InvalidValue"
                  /\ result'.status = ""]_vars

C11_Witness ==
    /\ pc = "idle"
    /\ op.name = "get_power_status"
    /\ io.kind = "read"
    /\ result = Ok_status("On")

----------------------------------------------------------------------------
(* Further properties of the session, checked under Spec                   *)

\* a step in which the caller makes a call: the peer's steps change none of
\* these
CallStep ==
    /\ pc = "idle"
    /\ <<op, io, outbound, result, pc>>' # <<op, io, outbound, result, pc>>

\* the step in which recv_packet gets the outcome of stream.read
ReadStep == pc = "read" /\ pc' # "read"

\* C13: a broadcast operation performs one write of its frame and no read,
\* awaits no reply and leaves the accumulation buffer unchanged; the broadcast
\* variant has the four mutating commands and no status query.
C13_BroadcastWritesOnly ==
    [][/\ (CallStep /\ op'.via = "all_displays") =>
            /\ buffer' = buffer
            /\ inbound' = inbound
            /\ pc' = "idle"
       /\ op'.via = "all_displays" =>
            /\ op'.name \in SetNames
            /\ pc' = "idle"
            /\ io'.kind = "write"
            /\ io'.ok => (outbound' = into_bytes(op'.request[1])
                          /\ result' = Ok_unit)
            /\ ~io'.ok => result' = Err_Io]_vars

\* a reply is waiting on the wire and bytes are accumulated, and the
\* broadcast has returned
C13_Witness ==
    /\ pc = "idle"
    /\ op.via = "all_displays"
    /\ result = Ok_unit
    /\ Len(buffer) > 0
    /\ Len(inbound) > 0

\* C16: send_packet_ack writes the whole encoded request before it reads, and
\* surfaces every transport failure at once: a failed write returns the error
\* with no read and the accumulation buffer unchanged; a failed read returns
\* the I/O error with no further read or write in that call.
C16_WriteThenReadNoRetry ==
    [][/\ (pc' \in {"decode", "read"} /\ op'.name # "recv_packet") =>
            outbound' = into_bytes(op'.request[1])
       /\ (CallStep /\ io'.kind = "write" /\ ~io'.ok) =>
            /\ pc' = "idle"
            /\ result' = Err_Io
            /\ buffer' = buffer
            /\ inbound' = inbound
       /\ (ReadStep /\ ~io'.ok) =>
            /\ pc' = "idle"
            /\ result' = Err_Io
            /\ outbound' = outbound
            /\ buffer' = buffer
            /\ inbound' = inbound]_vars

C16_Witness ==
    /\ pc = "idle"
    /\ op.name = "send_packet_ack"
    /\ outbound = into_bytes(op.request[1])
    /\ io.kind = "read" /\ ~io.ok
    /\ result = Err_Io
    /\ Len(buffer) > 0

----------------------------------------------------------------------------
(* Properties of frame reassembly, checked under SpecStream                *)

\* the frames the peer has sent and recv_packet has not returned yet
Unreturned == SubSeq(sent, Len(got) + 1, Len(sent))

\* the last read of the call returned an error or zero bytes
ReadFault == io.kind = "read" /\ (~io.ok \/ io.n = 0)

\* C14: however the reads split the byte stream of the valid frames f1..fk,
\* recv_packet returns f1, ..., fk in that order, each once, and no byte is
\* lost or duplicated: a call whose reads all return bytes returns a frame.
C14_ChunkingIndependent ==
    /\ Len(got) <= Len(sent)
    /\ got = SubSeq(sent, 1, Len(got))
    /\ buffer \o inbound = Flatten(Unreturned)
    /\ (pc = "idle" /\ op.name = "recv_packet") =>
          \/ /\ result.tag = "Ok"
             /\ result.packet = <<got[Len(got)]>>
          \/ /\ ReadFault
             /\ result.tag \in {"Io", "UnexpectedEndOfStream"}

\* the third frame came in three reads or more, the last of which also
\* brought nothing beyond it; the second one was split from it mid-read
C14_Witness ==
    /\ pc = "idle"
    /\ result.tag = "Ok"
    /\ Len(got) = 2
    /\ Len(sent) = 3
    /\ nreads >= 3
    /\ Len(buffer) > 0

\* C15: recv_packet decodes before every read and reads only after a decode
\* reported incomplete input; a whole frame already at the front of the
\* buffer is returned without a read; each read is followed by a decode of the
\* buffer extended with exactly the bytes read.
C15_DecodeBeforeRead ==
    [][/\ pc = "idle" => pc' \in {"idle", "decode"}
       /\ (pc' = "read" /\ pc # "read") =>
            /\ pc = "decode"
            /\ ~Packet_from_bytes(buffer).ok
            /\ Packet_from_bytes(buffer).err = "IncompleteInput"
            /\ buffer' = buffer
            /\ nreads' = nreads
       /\ (DecodeStep /\ Packet_from_bytes(buffer).ok) =>
            /\ pc' = "idle"
            /\ result' = Ok_packet(Packet_from_bytes(buffer).packet[1])
            /\ nreads' = nreads
            /\ inbound' = inbound
       /\ (ReadStep /\ io'.ok /\ io'.n > 0) =>
            /\ pc' = "decode"
            /\ buffer' = buffer \o SubSeq(inbound, 1, io'.n)
            /\ inbound' = SubSeq(inbound, io'.n + 1, Len(inbound))]_vars

\* a frame left over from an earlier read is returned by a call that read
\* nothing
C15_Witness ==
    /\ pc = "idle"
    /\ op.name = "recv_packet"
    /\ result.tag = "Ok"
    /\ io.kind = "none"
    /\ nreads = 0
    /\ Len(got) = 2

C19_FaultKeepsBytes ==
    [][/\ (ReadStep /\ (~io'.ok \/ io'.n = 0)) =>
            /\ pc' = "idle"
            /\ result' = (IF io'.ok THEN Err_UnexpectedEndOfStream ELSE Err_Io)
            /\ buffer' = buffer
            /\ inbound' = inbound
            /\ buffer' \o inbound' = Flatten(Unreturned)
       /\ (DecodeStep /\ Packet_from_bytes(buffer).ok) =>
            result' = Ok_packet(sent[Len(got) + 1])]_vars

\* a call has failed in the middle of a frame, whose first bytes are kept
C19_Witness ==
    /\ pc = "idle"
    /\ ReadFault
    /\ nreads >= 2
    /\ Len(buffer) >= 4
    /\ Len(buffer) < FrameLen(buffer)

----------------------------------------------------------------------------
(* Properties of the commands against a display, checked under SpecDisplay *)

\* the step in which a call that awaited a reply returns
ReturnStep == pc # "idle" /\ pc' = "idle"

\* C12: against a display that applies every acknowledged power command and
\* reports its power state by the status table, after successful addressed
\* set_power_on / set_power_off calls a get_power_status returns the status
\* of the last command (On after set_power_on, Off after set_power_off),
\* unless the transport fails under it.
C12_StatusFollowsCommand ==
    [][(ReturnStep /\ op.name = "get_power_status"
                   /\ lastPower \in {"On", "Off"}) =>
          \/ result' = Ok_status(lastPower)
          \/ /\ io'.kind = "read"
             /\ ~io'.ok \/ io'.n = 0
             /\ result'.tag \in {"Io", "UnexpectedEndOfStream"}]_vars

\* on, then off, then the query: the display is off and the query says Off
C12_Witness ==
    /\ pc = "idle"
    /\ op.name = "get_power_status"
    /\ lastPower = "Off"
    /\ power = "off"
    /\ result = Ok_status("Off")

\* C20: with a peer that answers every frame it receives, the frame a
\* successful send_packet_ack returns is the reply to the request written by
\* that same call, whatever calls (addressed, broadcast, queries, failed
\* ones) came before.
C20_ReplyPairing ==
    (pc = "idle" /\ op.via = "display" /\ result.tag = "Ok") => paired

====
